---- MODULE Spec2Model ----
(***************************************************************************)
(* The colored-nonogram solving engine: the line solver (arrangement       *)
(* enumeration and overlap intersection), the clue generator, the grid,    *)
(* and the bounded backtracking search of src/tools/solver.py.             *)
(*                                                                         *)
(* Python lists are modelled as sequences.  Positions inside the line      *)
(* solver (pos, start, end, clue_idx) keep the source's 0-based values;    *)
(* cell i of the source is element i + 1 of the sequence.                  *)
(***************************************************************************)
EXTENDS Integers, Sequences, FiniteSets, TLC

\* models.py: color 0 is the empty cell; Python's None is the unknown cell.
EMPTY == 0
None == -1

\* ------------------------------------------------------------------ bounds
\* Longest two-colour line given to the line solver.
MaxLen == 3
\* Largest small guess budget tried besides the default one.
MaxBudget == 3
\* Most Grid objects alive at once in a run of the Grid operations.
MaxObjs == 2
\* Largest value of a metric field given to max_technique_level.
MaxMetric == 2
\* BacktrackingSolver.__init__: max_backtracks = 500.
DefaultMaxBacktracks == 500
\* The colour ids of the largest palette.
Palette == {1, 2}

Min(a, b) == IF a < b THEN a ELSE b
Max(a, b) == IF a > b THEN a ELSE b

\* Python's [v] * n (the empty list when n <= 0).
Repeat(v, n) == [i \in 1..n |-> v]

\* Clue(count, color)
Clue(n, c) == [count |-> n, color |-> c]

\* ------------------------------------------------------------ generator.py
RECURSIVE run_end_filled(_, _, _)
\* A variant of the inner loop that runs on over every non-empty cell.
run_end_filled(line, i, color) ==
    IF i <= Len(line) /\ line[i] # EMPTY
    THEN run_end_filled(line, i + 1, color) ELSE i

RECURSIVE run_end(_, _, _)
\* The inner while loop of generate_clues: the first index >= i (1-based)
\* whose cell differs from color, or Len(line) + 1.
run_end(line, i, color) ==
    IF i <= Len(line) /\ line[i] = color THEN run_end(line, i + 1, color) ELSE i

RECURSIVE clues_from(_, _)
clues_from(line, i) ==
    IF i > Len(line) THEN <<>>
    ELSE IF line[i] = EMPTY THEN clues_from(line, i + 1)
    ELSE LET j == run_end(line, i, line[i])
         IN  <<Clue(j - i, line[i])>> \o clues_from(line, j)

\* generate_clues(line): the runs of equal non-empty cells, left to right.
generate_clues(line) == clues_from(line, 1)

\* --------------------------------------------------------------- solver.py
\* A variant of is_compatible that never compares with the known cells.
is_compatible_unchecked(line, arrangement) == TRUE

\* is_compatible(line, arrangement): zip stops at the shorter list.
is_compatible(line, arrangement) ==
    \A i \in 1..Min(Len(line), Len(arrangement)) :
        line[i] = None \/ line[i] = arrangement[i]

RECURSIVE sum_counts(_, _)
\* sum(c.count for c in clues[k:]), k 0-based.
sum_counts(clues, k) ==
    IF k >= Len(clues) THEN 0 ELSE clues[k + 1].count + sum_counts(clues, k + 1)

\* A variant of min_remaining that counts a separator between every two
\* adjacent clues, as a single-colour solver would.
min_remaining_mono(clues, clue_idx) ==
    sum_counts(clues, clue_idx) + Max(0, Len(clues) - 1 - clue_idx)

\* Lines 80-83: the cells the clues from clue_idx on need at least.
min_remaining(clues, clue_idx) ==
    sum_counts(clues, clue_idx)
    + Cardinality({i \in clue_idx..(Len(clues) - 2) :
                      clues[i + 1].color = clues[i + 2].color})

\* Lines 96-100: no cell of [start, end) is known to hold something else.
can_place(line, clue, start, end) ==
    \A i \in start..(end - 1) : line[i + 1] = None \/ line[i + 1] = clue.color

\* Lines 104-108 and 121-125: a cell of [pos, start) is known to hold the
\* clue's color, so no later start can be valid.
must_stop(line, clue, pos, start) ==
    \E i \in pos..(start - 1) : line[i + 1] # None /\ line[i + 1] = clue.color

\* Lines 114-118: the cells skipped before the clue may all be empty.
prefix_ok(line, pos, start) ==
    \A i \in pos..(start - 1) : line[i + 1] = None \/ line[i + 1] = EMPTY

\* Lines 135-137: the next clue has this clue's color.
needs_separator(clues, clue_idx) ==
    /\ clue_idx < Len(clues) - 1
    /\ clues[clue_idx + 2].color = clues[clue_idx + 1].color

RECURSIVE recurse(_, _, _, _, _)
RECURSIVE place_loop(_, _, _, _, _, _)

\* generate_arrangements.recurse(pos, clue_idx, current): the arrangements
\* it yields, in order.
recurse(line, clues, pos, clue_idx, current) ==
    IF clue_idx = Len(clues)
    THEN LET full == current \o Repeat(EMPTY, Len(line) - pos)
         IN  IF is_compatible(line, full) THEN <<full>> ELSE <<>>
    ELSE place_loop(line, clues, pos, clue_idx, current, pos)

\* The for loop of lines 86-147 from `start` on.
place_loop(line, clues, pos, clue_idx, current, start) ==
    LET length == Len(line)
        clue   == clues[clue_idx + 1]
        end    == start + clue.count
        placed == current \o Repeat(EMPTY, start - pos) \o Repeat(clue.color, clue.count)
        next   == place_loop(line, clues, pos, clue_idx, current, start + 1)
    IN  IF start >= length - min_remaining(clues, clue_idx) + 1 THEN <<>>
        ELSE IF end > length THEN <<>>
        ELSE IF ~can_place(line, clue, start, end)
             THEN IF must_stop(line, clue, pos, start) THEN <<>> ELSE next
        ELSE IF ~prefix_ok(line, pos, start)
             THEN IF must_stop(line, clue, pos, start) THEN <<>> ELSE next
        ELSE IF needs_separator(clues, clue_idx)
             THEN IF end < length
                  THEN IF line[end + 1] # None /\ line[end + 1] # EMPTY
                       THEN next
                       ELSE recurse(line, clues, end + 1, clue_idx + 1,
                                    placed \o <<EMPTY>>) \o next
                  ELSE next
        ELSE recurse(line, clues, end, clue_idx + 1, placed) \o next

\* generate_arrangements(line, clues)
generate_arrangements(line, clues) == recurse(line, clues, 0, 0, <<>>)

\* What solve_line returns: a line, or None (valid = FALSE).
Invalid == [valid |-> FALSE, line |-> <<>>]
Valid(l) == [valid |-> TRUE, line |-> l]

\* A variant of intersect that takes a cell's value from the last
\* arrangement.
intersect_last(line, valid_arrangements) ==
    [i \in 1..Len(line) |->
        IF line[i] # None THEN line[i]
        ELSE valid_arrangements[Len(valid_arrangements)][i]]

\* A variant of intersect that takes a cell's value from the first
\* arrangement without asking the others.
intersect_first(line, valid_arrangements) ==
    [i \in 1..Len(line) |->
        IF line[i] # None THEN line[i] ELSE valid_arrangements[1][i]]

\* Lines 41-50: a cell keeps its known value, or takes the value all
\* arrangements share.
intersect(line, valid_arrangements) ==
    [i \in 1..Len(line) |->
        IF line[i] # None THEN line[i]
        ELSE LET values == {valid_arrangements[k][i] :
                                k \in 1..Len(valid_arrangements)}
             IN  IF Cardinality(values) = 1
                 THEN CHOOSE v \in values : TRUE
                 ELSE None]

\* A variant of solve_no_clues that skips the conflict test of line 30.
solve_no_clues_blind(line) == Valid(Repeat(EMPTY, Len(line)))

\* Lines 26-33: no clues.
solve_no_clues(line) ==
    IF \E i \in 1..Len(line) : line[i] # None /\ line[i] # EMPTY
    THEN Invalid
    ELSE Valid(Repeat(EMPTY, Len(line)))

\* solve_line(line, clues)
solve_line(line, clues) ==
    IF clues = <<>> THEN solve_no_clues(line)
    ELSE LET valid_arrangements == generate_arrangements(line, clues)
         IN  IF valid_arrangements = <<>> THEN Invalid
             ELSE Valid(intersect(line, valid_arrangements))

\* --------------------------------------------------------------- models.py
\* Grid.create_empty(width, height): every cell unknown.
create_empty(width, height) ==
    [width |-> width, height |-> height,
     cells |-> [r \in 1..height |-> [c \in 1..width |-> None]]]

\* Grid.get(row, col), row and col 0-based.
get(g, row, col) == g.cells[row + 1][col + 1]

\* A variant of set whose write is lost.
set_lost(g, row, col, value) ==
    [raised |-> FALSE, changed |-> TRUE, grid |-> g]

\* Grid.set(row, col, value): raised is the ValueError of line 114, changed
\* the returned flag, grid the grid afterwards.
set(g, row, col, value) ==
    IF g.cells[row + 1][col + 1] = value
    THEN [raised |-> FALSE, changed |-> FALSE, grid |-> g]
    ELSE IF g.cells[row + 1][col + 1] # None /\ value # None
    THEN [raised |-> TRUE, changed |-> FALSE, grid |-> g]
    ELSE [raised |-> FALSE, changed |-> TRUE,
          grid |-> [g EXCEPT !.cells[row + 1][col + 1] = value]]

\* A variant of get_col that reads the row of the same index.
get_col_transposed(g, col) == g.cells[col + 1]

\* Grid.get_row(row) and Grid.get_col(col), 0-based.
get_row(g, row) == g.cells[row + 1]
get_col(g, col) == [r \in 1..g.height |-> g.cells[r][col + 1]]

\* A variant of writes that takes every determined value for a new one.
writes_again(old, values) ==
    {i \in 1..Len(values) : values[i] # None}

\* The cells Grid.set_row / set_col write: known values into unknown cells.
writes(old, values) ==
    {i \in 1..Len(values) : values[i] # None /\ old[i] = None}

\* Grid.set_row(row, values): the grid afterwards and the count of changes.
set_row(g, row, values) ==
    LET w == writes(get_row(g, row), values)
    IN  [grid |-> [g EXCEPT !.cells[row + 1] =
                       [c \in 1..g.width |-> IF c \in w THEN values[c] ELSE @[c]]],
         changes |-> Cardinality(w)]

\* A variant of set_col that writes the values into the row of the same
\* index.
set_col_into_row(g, col, values) ==
    LET w == writes(get_col(g, col), values)
    IN  [grid |-> [g EXCEPT !.cells[col + 1] =
                       [c \in 1..g.width |-> IF c \in w THEN values[c] ELSE @[c]]],
         changes |-> Cardinality(w)]

\* Grid.set_col(col, values)
set_col(g, col, values) ==
    LET w == writes(get_col(g, col), values)
    IN  [grid |-> [g EXCEPT !.cells =
                       [r \in 1..g.height |->
                           IF r \in w THEN [@[r] EXCEPT ![col + 1] = values[r]]
                           ELSE @[r]]],
         changes |-> Cardinality(w)]

\* A variant of is_complete that tests the truth value of the cells, which
\* takes an empty cell (0) for an undetermined one.
is_complete_truthy(g) ==
    \A r \in 1..g.height : \A c \in 1..g.width :
        g.cells[r][c] \notin {None, EMPTY}

\* Grid.is_complete()
is_complete(g) ==
    \A r \in 1..g.height : \A c \in 1..g.width : g.cells[r][c] # None

\* Grid.copy(): a grid with the same cells.
copy(g) ==
    [width |-> g.width, height |-> g.height,
     cells |-> [r \in 1..Len(g.cells) |-> g.cells[r]]]

\* Grid objects on a heap of lists.  A heap h is a sequence of lists, the
\* address of a list its index; a Grid object o holds in o.cells the address
\* of its list of rows, which holds the addresses of the row lists.
\* The grid a Grid object stands for.
Value(h, o) ==
    [width |-> o.width, height |-> o.height,
     cells |-> [r \in 1..Len(h[o.cells]) |-> h[h[o.cells][r]]]]

\* The lists a Grid object reaches.
Storage(h, o) == {o.cells} \cup {h[o.cells][r] : r \in 1..Len(h[o.cells])}

\* A variant of Grid_copy that copies the list of rows only:
\* new_cells = self.cells[:].
Grid_copy_shallow(h, o) ==
    [heap |-> Append(h, h[o.cells]),
     grid |-> [width |-> o.width, height |-> o.height, cells |-> Len(h) + 1]]

\* Grid.copy() on the heap: new_cells = [row[:] for row in self.cells]
\* allocates a copy of every row list, then the list of the copies.
Grid_copy(h, o) ==
    LET n == Len(h[o.cells])
    IN  [heap |-> h \o [r \in 1..n |-> h[h[o.cells][r]]]
                    \o <<[r \in 1..n |-> Len(h) + r]>>,
         grid |-> [width |-> o.width, height |-> o.height,
                   cells |-> Len(h) + n + 1]]

\* Grid.set(row, col, value) on the heap: the assignment of line 115 is made
\* in place, in the row list.
Grid_set(h, o, row, col, value) ==
    LET res == set(Value(h, o), row, col, value)
    IN  [raised |-> res.raised, changed |-> res.changed,
         heap |-> IF res.changed
                  THEN [h EXCEPT ![h[o.cells][row + 1]][col + 1] = value]
                  ELSE h]

\* SolverMetrics()
SolverMetrics ==
    [total_steps |-> 0, cells_solved |-> 0, overlap_uses |-> 0,
     stuck_count |-> 0, backtrack_depth |-> 0, backtrack_count |-> 0]

max_technique_level_stuck_first(m) ==
    IF m.stuck_count > 0 THEN 2
    ELSE IF m.backtrack_count > 0 THEN 3
    ELSE 1

\* SolverMetrics.max_technique_level
max_technique_level(m) ==
    IF m.backtrack_count > 0 THEN 3
    ELSE IF m.stuck_count > 0 THEN 2
    ELSE 1

\* ------------------------------------------------------------ generator.py
\* Puzzle.solution when no original image is attached (Python's None).
NoGrid == <<>>

\* The colour ids a grid of cells uses.
GridColors(cells) ==
    {cells[r][c] : r \in 1..Len(cells), c \in 1..Len(cells[1])} \ {EMPTY}

\* puzzle_from_grid(grid, color_map) without trimming; colors stands for the
\* keys of color_map.
puzzle_from_grid(cells, colors) ==
    LET height == Len(cells)
        width  == IF height > 0 THEN Len(cells[1]) ELSE 0
    IN  [width |-> width, height |-> height,
         row_clues |-> [r \in 1..height |-> generate_clues(cells[r])],
         col_clues |-> [c \in 1..width |->
                           generate_clues([r \in 1..height |-> cells[r][c]])],
         colors |-> colors,
         solution |-> cells]

\* puzzle_from_array(data) for integer data: the colour map lists the colours
\* of the grid.
puzzle_from_array(cells) == puzzle_from_grid(cells, GridColors(cells))

\* --------------------------------------------------------------- solver.py
\* A variant of solve_row that takes a contradiction for "no change".
solve_row_unchecked(p, g, m, row_idx) ==
    LET result == solve_line(get_row(g, row_idx), p.row_clues[row_idx + 1])
        wr     == set_row(g, row_idx, result.line)
    IN  IF ~result.valid
        THEN [valid |-> TRUE, grid |-> g, metrics |-> m, changed |-> FALSE]
        ELSE [valid |-> TRUE, grid |-> wr.grid,
              metrics |-> [m EXCEPT !.total_steps = @ + 1,
                                    !.overlap_uses =
                                        IF wr.changes > 0 THEN @ + 1 ELSE @],
              changed |-> wr.changes > 0]

\* Solver._solve_row(row_idx) on grid g with the local metrics m: None
\* (valid = FALSE), or the grid and metrics afterwards and the returned flag.
solve_row(p, g, m, row_idx) ==
    LET result == solve_line(get_row(g, row_idx), p.row_clues[row_idx + 1])
        wr     == set_row(g, row_idx, result.line)
    IN  IF ~result.valid
        THEN [valid |-> FALSE, grid |-> g, metrics |-> m, changed |-> FALSE]
        ELSE [valid |-> TRUE, grid |-> wr.grid,
              metrics |-> [m EXCEPT !.total_steps = @ + 1,
                                    !.overlap_uses =
                                        IF wr.changes > 0 THEN @ + 1 ELSE @],
              changed |-> wr.changes > 0]

\* A variant of solve_col that never reports a change.
solve_col_silent(p, g, m, col_idx) ==
    LET result == solve_line(get_col(g, col_idx), p.col_clues[col_idx + 1])
        wr     == set_col(g, col_idx, result.line)
    IN  IF ~result.valid
        THEN [valid |-> FALSE, grid |-> g, metrics |-> m, changed |-> FALSE]
        ELSE [valid |-> TRUE, grid |-> wr.grid,
              metrics |-> [m EXCEPT !.total_steps = @ + 1,
                                    !.overlap_uses =
                                        IF wr.changes > 0 THEN @ + 1 ELSE @],
              changed |-> FALSE]

\* A variant of solve_col that takes a contradiction for "no change".
solve_col_unchecked(p, g, m, col_idx) ==
    [valid |-> TRUE, grid |-> g, metrics |-> m, changed |-> FALSE]

\* Solver._solve_col(col_idx)
solve_col(p, g, m, col_idx) ==
    LET result == solve_line(get_col(g, col_idx), p.col_clues[col_idx + 1])
        wr     == set_col(g, col_idx, result.line)
    IN  IF ~result.valid
        THEN [valid |-> FALSE, grid |-> g, metrics |-> m, changed |-> FALSE]
        ELSE [valid |-> TRUE, grid |-> wr.grid,
              metrics |-> [m EXCEPT !.total_steps = @ + 1,
                                    !.overlap_uses =
                                        IF wr.changes > 0 THEN @ + 1 ELSE @],
              changed |-> wr.changes > 0]

\* A variant of first_unknown that returns the first cell of the grid
\* whenever some cell is unknown.
first_unknown_corner(g) ==
    IF \A r \in 0..(g.height - 1) : \A c \in 0..(g.width - 1) :
           get(g, r, c) # None
    THEN <<-1, -1>>
    ELSE <<0, 0>>

\* Lines 318-328: one pass over the rows, then the columns, from line i on
\* (rows are lines 0..height-1, columns the lines after them); st holds the
\* grid, the changed flag and whether no contradiction was met.
RECURSIVE sweep(_, _, _)
sweep(p, st, i) ==
    IF i = p.height + p.width THEN st
    ELSE LET r == IF i < p.height
                  THEN solve_row(p, st.grid, SolverMetrics, i)
                  ELSE solve_col(p, st.grid, SolverMetrics, i - p.height)
         IN  IF ~r.valid
             THEN [valid |-> FALSE, grid |-> st.grid, changed |-> st.changed]
             ELSE sweep(p, [valid |-> TRUE, grid |-> r.grid,
                            changed |-> st.changed \/ r.changed], i + 1)

\* Lines 315-328: the passes repeated until one changes nothing or meets a
\* contradiction.
RECURSIVE propagate(_, _)
propagate(p, g) ==
    LET st == sweep(p, [valid |-> TRUE, grid |-> g, changed |-> FALSE], 0)
    IN  IF st.valid /\ st.changed THEN propagate(p, st.grid) ELSE st

\* Lines 337-344: the first unknown cell in row-major order, as <<row, col>>
\* (0-based); <<-1, -1>> stands for None.
first_unknown(g) ==
    LET unknown == {<<r, c>> \in (0..(g.height - 1)) \X (0..(g.width - 1)) :
                        get(g, r, c) = None}
    IN  IF unknown = {} THEN <<-1, -1>>
        ELSE CHOOSE rc \in unknown :
                \A o \in unknown :
                    rc[1] < o[1] \/ (rc[1] = o[1] /\ rc[2] <= o[2])

\* A variant of possible_colors that forgets the empty cell.
possible_colors_no_empty(p) == p.colors

\* Line 354: the values a guess tries.
possible_colors(p) == p.colors \cup {EMPTY}

\* Line 351: self.metrics.backtrack_depth = max(self.metrics.backtrack_depth, 1)
guess_depth(depth) == Max(depth, 1)

\* A variant of enough_solutions that never stops the search.
enough_solutions_never(sols, max_sols) == FALSE

\* A variant of enough_solutions that stops one solution late.
enough_solutions_late(sols, max_sols) == Len(sols) > max_sols

\* Lines 303-304: enough solutions were recorded.
enough_solutions(sols, max_sols) == Len(sols) >= max_sols

\* A variant of budget_exhausted that lets one more branch in.
budget_exhausted_late(m, max_bt) == m.backtrack_count > max_bt

\* Line 306: the guess budget is used up.
budget_exhausted(m, max_bt) == m.backtrack_count >= max_bt

\* solve(puzzle, check_uniqueness): the max_solutions it constructs with.
solutions_wanted(check_uniqueness) == IF check_uniqueness THEN 2 ELSE 1

\* SolveResult(solved, grid, metrics, solutions_found=1, timed_out=False)
SolveResult(solved, g, m, solutions_found, to) ==
    [solved |-> solved, grid |-> g, metrics |-> m,
     solutions_found |-> solutions_found, timed_out |-> to]

\* A variant of build_result that looks at the solutions before the
\* timed_out flag.
build_result_solutions_first(g, m, sols, to) ==
    IF Len(sols) >= 1 THEN SolveResult(TRUE, sols[1], m, Len(sols), FALSE)
    ELSE IF to THEN SolveResult(FALSE, g, m, 0, TRUE)
    ELSE SolveResult(FALSE, g, m, 0, FALSE)

\* A variant of build_result that reports a single solution whenever one
\* was recorded.
build_result_one(g, m, sols, to) ==
    IF to THEN SolveResult(FALSE, g, m, 0, TRUE)
    ELSE IF Len(sols) >= 1 THEN SolveResult(TRUE, sols[1], m, 1, FALSE)
    ELSE SolveResult(FALSE, g, m, 0, FALSE)

\* A variant of build_result that hands out a recorded grid when the search
\* timed out.
build_result_recorded_grid(g, m, sols, to) ==
    IF to THEN SolveResult(FALSE, IF sols # <<>> THEN sols[1] ELSE g, m, 0, TRUE)
    ELSE IF Len(sols) = 1 THEN SolveResult(TRUE, sols[1], m, 1, FALSE)
    ELSE IF Len(sols) > 1 THEN SolveResult(TRUE, sols[1], m, Len(sols), FALSE)
    ELSE SolveResult(FALSE, g, m, 0, FALSE)

\* A variant of build_result that reports two solutions whenever one was
\* recorded.
build_result_at_least_two(g, m, sols, to) ==
    IF to THEN SolveResult(FALSE, g, m, 0, TRUE)
    ELSE IF Len(sols) >= 1 THEN SolveResult(TRUE, sols[1], m, 2, FALSE)
    ELSE SolveResult(FALSE, g, m, 0, FALSE)

\* BacktrackingSolver.solve, lines 271-299: the result built from the
\* solver's state after the search.
build_result(g, m, sols, to) ==
    IF to THEN SolveResult(FALSE, g, m, 0, TRUE)
    ELSE IF Len(sols) = 1 THEN SolveResult(TRUE, sols[1], m, 1, FALSE)
    ELSE IF Len(sols) > 1 THEN SolveResult(TRUE, sols[1], m, Len(sols), FALSE)
    ELSE SolveResult(FALSE, g, m, 0, FALSE)

\* ------------------------------------------------------------ validator.py
\* _grids_match(grid, solution)
grids_match(g, solution) ==
    \A row \in 0..(g.height - 1) : \A col \in 0..(g.width - 1) :
        get(g, row, col) = solution[row + 1][col + 1]

\* No SolveResult: the value of result before solve() returns, and a
\* solve_result of None.
NoResult == SolveResult(FALSE, create_empty(0, 0), SolverMetrics, 0, FALSE)

\* ValidationReport(result, solve_result, message)
ValidationReport(res, sr, msg) ==
    [result |-> res, solve_result |-> sr, message |-> msg]

\* ValidationReport.is_valid
is_valid(rep) == rep.result = "valid_unique"

\* Lines 47-50: all_empty
all_empty(p) ==
    \A i \in 1..(p.height + p.width) : (p.row_clues \o p.col_clues)[i] = <<>>

validate_puzzle_count_first(p, r) ==
    IF p.width = 0 \/ p.height = 0
    THEN ValidationReport("invalid_empty", NoResult,
                          "Empty puzzle (zero dimensions)")
    ELSE IF all_empty(p)
    THEN ValidationReport("invalid_empty", NoResult,
                          "All clues empty (fully transparent image)")
    ELSE IF r.solutions_found = 0
    THEN ValidationReport("unsolvable", r, "No valid solution exists")
    ELSE IF r.timed_out
    THEN ValidationReport("too_complex", r,
                          "Puzzle too complex (solver timed out)")
    ELSE IF r.solutions_found = 1
    THEN IF p.solution # NoGrid /\ ~grids_match(r.grid, p.solution)
         THEN ValidationReport("unsolvable", r,
                               "Solution does not match original image")
         ELSE ValidationReport("valid_unique", r,
                               "Puzzle has exactly one solution")
    ELSE ValidationReport("valid_multiple", r,
                          "Puzzle has multiple solutions")

\* validate_puzzle(puzzle), given the SolveResult r that
\* solve(puzzle, check_uniqueness=True) returns at line 59.
validate_puzzle(p, r) ==
    IF p.width = 0 \/ p.height = 0
    THEN ValidationReport("invalid_empty", NoResult,
                          "Empty puzzle (zero dimensions)")
    ELSE IF all_empty(p)
    THEN ValidationReport("invalid_empty", NoResult,
                          "All clues empty (fully transparent image)")
    ELSE IF r.timed_out
    THEN ValidationReport("too_complex", r,
                          "Puzzle too complex (solver timed out)")
    ELSE IF r.solutions_found = 0
    THEN ValidationReport("unsolvable", r, "No valid solution exists")
    ELSE IF r.solutions_found = 1
    THEN IF p.solution # NoGrid /\ ~grids_match(r.grid, p.solution)
         THEN ValidationReport("unsolvable", r,
                               "Solution does not match original image")
         ELSE ValidationReport("valid_unique", r,
                               "Puzzle has exactly one solution")
    ELSE ValidationReport("valid_multiple", r,
                          "Puzzle has multiple solutions")

\* ------------------------------------------------------------------- state
VARIABLES
    line, clues, arrs, out, lpc,  \* a run of the line solver
    puzzle,          \* self.puzzle
    max_solutions,   \* self.max_solutions
    max_backtracks,  \* self.max_backtracks
    grid,            \* self.grid, the solver's top-level grid
    metrics,         \* self.metrics
    solutions,       \* self.solutions
    timed_out,       \* self.timed_out
    stack,           \* the activations of _solve_recursive, innermost last
    ret,             \* the value the last finished activation returned
    phase,           \* "line", "ready", "run" or "done"
    result,          \* the SolveResult solve() returned
    hist,            \* history: how the branches of the search ended
    report,          \* the ValidationReport validate_puzzle returned
    level,           \* the value max_technique_level returned
    heap, objs,      \* list objects by address, and the Grid objects on them
    call,            \* the last call made on a Grid object
    clock            \* history: the steps taken so far

lvars == <<line, clues, arrs, out, lpc>>
svars == <<puzzle, max_solutions, max_backtracks, grid, metrics, solutions,
           timed_out, stack, ret, phase, result, hist>>
xvars == <<report, level, heap, objs, call>>
vars == <<lvars, svars, xvars, clock>>

\* Every step of a solver, a validation or a grading advances the clock.
Tick == clock' = clock + 1

NoHist == [entered |-> 0, capped |-> 0, refused |-> 0, contradiction |-> 0,
           complete |-> 0, guessed |-> 0, stalled |-> 0, raised |-> 0,
           nested |-> 0, runs |-> 0, handed |-> <<>>,
           attempts |-> 0]

\* The search variables while the line solver runs alone.
SearchIdle ==
    /\ puzzle = puzzle_from_grid(<<>>, {})
    /\ max_solutions = 0
    /\ max_backtracks = 0
    /\ grid = create_empty(0, 0)
    /\ metrics = SolverMetrics
    /\ solutions = <<>>
    /\ timed_out = FALSE
    /\ stack = <<>>
    /\ ret = FALSE
    /\ phase = "line"
    /\ result = NoResult
    /\ hist = NoHist

\* The validator, the grading and the Grid objects while a solver runs.
NoReport == ValidationReport("none", NoResult, "")
NoCall == [op |-> "none"]
OtherIdle ==
    /\ report = NoReport
    /\ level = 0
    /\ heap = <<>>
    /\ objs = <<>>
    /\ call = NoCall
    /\ clock = 0

\* The line variables while a search runs.
LineIdle ==
    /\ line = <<>>
    /\ clues = <<>>
    /\ arrs = <<>>
    /\ out = Invalid
    /\ lpc = "idle"

\* ------------------------------------------------------- line-solver runs
\* Sequences over S of length 0..n.
SeqsUpTo(S, n) == UNION {[1..k -> S] : k \in 0..n}

\* The lines and clue lists a run starts from: every line of up to MaxLen
\* cells over the palette, and the one-colour lines two cells longer.
Lines ==
    SeqsUpTo({None, EMPTY} \cup Palette, MaxLen)
    \cup [1..(MaxLen + 2) -> {None, EMPTY, 1}]
ClueLists ==
    {generate_clues(a) : a \in SeqsUpTo({EMPTY} \cup Palette, MaxLen)
                               \cup [1..(MaxLen + 2) -> {EMPTY, 1}]}

InitLine ==
    /\ line \in Lines
    /\ clues \in ClueLists
    /\ arrs = <<>>
    /\ out = Invalid
    /\ lpc = "ready"
    /\ SearchIdle
    /\ OtherIdle

\* One call of solve_line(line, clues); arrs is its valid_arrangements
\* (line 36), not computed on the no-clue path.
SolveLine ==
    /\ Tick
    /\ lpc = "ready"
    /\ arrs' = IF clues = <<>> THEN <<>> ELSE generate_arrangements(line, clues)
    /\ out' = solve_line(line, clues)
    /\ lpc' = "solved"
    /\ UNCHANGED <<line, clues, svars, xvars>>

NextLine == SolveLine

SpecLine == InitLine /\ [][NextLine]_vars

\* ------------------------------------------------------------ search runs
\* The shapes <<height, width, colours>> of the grids puzzles are built from.
GridShapes == {<<2, 2, {1, 2}>>, <<3, 3, {1}>>}

\* The grids of a shape.
GridsOf(sh) == [1..sh[1] -> [1..sh[2] -> {EMPTY} \cup sh[3]]]

\* The clue lists a line of n cells over the colours cs can have.
LineClues(n, cs) == {generate_clues(a) : a \in [1..n -> {EMPTY} \cup cs]}

\* The guess budgets: the small ones and the default.
Budgets == (0..MaxBudget) \cup {DefaultMaxBacktracks}

\* The puzzles a search starts from: the puzzle of every grid of every
\* shape, and every 2x2 puzzle with arbitrary line clues over the palette,
\* with the full palette or with colour 1 alone as its colour map.
Puzzles ==
    {puzzle_from_array(g) : g \in UNION {GridsOf(sh) : sh \in GridShapes}}
    \cup {[width |-> 2, height |-> 2, row_clues |-> rc, col_clues |-> cc,
           colors |-> cs, solution |-> NoGrid] :
            rc \in [1..2 -> LineClues(2, Palette)],
            cc \in [1..2 -> LineClues(2, Palette)],
            cs \in {Palette, {1}}}

\* BacktrackingSolver(puzzle, max_solutions, max_backtracks) as constructed
\* by solve(puzzle, check_uniqueness); the puzzles built from a grid are also
\* searched with the smaller budgets.
Init ==
    /\ LineIdle
    /\ OtherIdle
    /\ puzzle \in Puzzles
    /\ \E check_uniqueness \in BOOLEAN :
          max_solutions = solutions_wanted(check_uniqueness)
    /\ max_backtracks \in IF puzzle.solution = NoGrid
                          THEN {DefaultMaxBacktracks} ELSE Budgets
    /\ grid = create_empty(puzzle.width, puzzle.height)
    /\ metrics = SolverMetrics
    /\ solutions = <<>>
    /\ timed_out = FALSE
    /\ stack = <<>>
    /\ ret = FALSE
    /\ phase = "ready"
    /\ result = NoResult
    /\ hist = NoHist

\* A new activation _solve_recursive(g), about to run line 303.
Frame(g) ==
    [pc |-> "entry", grid |-> g, working_grid |-> g, idx |-> 0,
     changed |-> TRUE, sm |-> SolverMetrics, guess_cell |-> <<-1, -1>>,
     todo |-> {}]

Top == stack[Len(stack)]
Pop == SubSeq(stack, 1, Len(stack) - 1)
SetTop(f) == [stack EXCEPT ![Len(stack)] = f]
Count(field) == [hist EXCEPT ![field] = @ + 1]

\* BacktrackingSolver.solve, line 269: the call _solve_recursive(self.grid).
Solve ==
    /\ Tick
    /\ phase = "ready"
    /\ phase' = "run"
    /\ stack' = <<Frame(grid)>>
    /\ hist' = [hist EXCEPT !.handed = <<grid>>]
    /\ UNCHANGED <<lvars, xvars, puzzle, max_solutions, max_backtracks, grid, metrics,
                   solutions, timed_out, ret, result>>

\* Lines 303-317: the two stop tests, then the working copy and the entry
\* into the propagation loop.
Enter ==
    /\ Tick
    /\ phase = "run" /\ stack # <<>> /\ Top.pc = "entry"
    /\ IF enough_solutions(solutions, max_solutions)
       THEN /\ stack' = Pop
            /\ ret' = TRUE
            /\ hist' = Count("capped")
            /\ UNCHANGED timed_out
       ELSE IF budget_exhausted(metrics, max_backtracks)
       THEN /\ timed_out' = TRUE
            /\ stack' = Pop
            /\ ret' = TRUE
            /\ hist' = Count("refused")
       ELSE /\ stack' = SetTop([Top EXCEPT !.pc = "rows",
                                           !.working_grid = copy(Top.grid),
                                           !.idx = 0,
                                           !.changed = FALSE])
            /\ hist' = Count("entered")
            /\ UNCHANGED <<timed_out, ret>>
    /\ UNCHANGED <<lvars, xvars, puzzle, max_solutions, max_backtracks, grid, metrics,
                   solutions, phase, result>>

\* Lines 318-322: one row of the pass.
SolveRow ==
    /\ Tick
    /\ phase = "run" /\ stack # <<>> /\ Top.pc = "rows"
    /\ LET r == solve_row(puzzle, Top.working_grid, Top.sm, Top.idx)
       IN  IF ~r.valid
           THEN /\ stack' = Pop
                /\ ret' = FALSE
                /\ hist' = [hist EXCEPT !.contradiction = @ + 1,
                                      !.attempts = @ + 1]
           ELSE /\ stack' = SetTop(
                      [Top EXCEPT !.working_grid = r.grid,
                                  !.sm = r.metrics,
                                  !.changed = @ \/ r.changed,
                                  !.idx = IF Top.idx + 1 < puzzle.height
                                          THEN Top.idx + 1 ELSE 0,
                                  !.pc = IF Top.idx + 1 < puzzle.height
                                         THEN "rows" ELSE "cols"])
                /\ hist' = Count("attempts")
                /\ UNCHANGED ret
    /\ UNCHANGED <<lvars, xvars, puzzle, max_solutions, max_backtracks, grid, metrics,
                   solutions, timed_out, phase, result>>

\* Lines 324-328: one column of the pass.
SolveCol ==
    /\ Tick
    /\ phase = "run" /\ stack # <<>> /\ Top.pc = "cols"
    /\ LET r == solve_col(puzzle, Top.working_grid, Top.sm, Top.idx)
       IN  IF ~r.valid
           THEN /\ stack' = Pop
                /\ ret' = FALSE
                /\ hist' = [hist EXCEPT !.contradiction = @ + 1,
                                      !.attempts = @ + 1]
           ELSE /\ stack' = SetTop(
                      [Top EXCEPT !.working_grid = r.grid,
                                  !.sm = r.metrics,
                                  !.changed = @ \/ r.changed,
                                  !.idx = IF Top.idx + 1 < puzzle.width
                                          THEN Top.idx + 1 ELSE 0,
                                  !.pc = IF Top.idx + 1 < puzzle.width
                                         THEN "cols" ELSE "endpass"])
                /\ hist' = Count("attempts")
                /\ UNCHANGED ret
    /\ UNCHANGED <<lvars, xvars, puzzle, max_solutions, max_backtracks, grid, metrics,
                   solutions, timed_out, phase, result>>

\* Line 316 after a pass, and when the loop ends lines 330-354: merge the
\* step count, record a completed grid, or pick the cell to guess.
EndPass ==
    /\ Tick
    /\ phase = "run" /\ stack # <<>> /\ Top.pc = "endpass"
    /\ IF Top.changed
       THEN /\ stack' = SetTop([Top EXCEPT !.pc = "rows", !.idx = 0,
                                           !.changed = FALSE])
            /\ UNCHANGED <<metrics, solutions, ret, hist>>
       ELSE LET merged == [metrics EXCEPT !.total_steps = @ + Top.sm.total_steps]
                cell   == first_unknown(Top.working_grid)
            IN  IF is_complete(Top.working_grid)
                THEN /\ metrics' = merged
                     /\ solutions' = Append(solutions, copy(Top.working_grid))
                     /\ stack' = Pop
                     /\ ret' = TRUE
                     /\ hist' = Count("complete")
                ELSE IF cell = <<-1, -1>>
                THEN /\ metrics' = merged
                     /\ stack' = Pop
                     /\ ret' = FALSE
                     /\ UNCHANGED <<solutions, hist>>
                ELSE /\ metrics' =
                          [merged EXCEPT !.backtrack_count = @ + 1,
                                         !.backtrack_depth = guess_depth(@)]
                     /\ stack' = SetTop([Top EXCEPT !.pc = "guess",
                                                    !.guess_cell = cell,
                                                    !.todo = possible_colors(puzzle)])
                     /\ hist' = [hist EXCEPT !.guessed = @ + 1,
                                             !.stalled = @ + 1,
                                             !.nested = Max(@, Len(stack))]
                     /\ UNCHANGED <<solutions, ret>>
    /\ UNCHANGED <<lvars, xvars, puzzle, max_solutions, max_backtracks, grid,
                   timed_out, phase, result>>

\* Lines 356-360: the next value of the for loop (a set is iterated in no
\* specified order): copy the working grid, write the guess, recurse.  A
\* ValueError of the write is caught and the loop continues (363-364).
TryColor ==
    /\ Tick
    /\ phase = "run" /\ stack # <<>> /\ Top.pc = "guess"
    /\ \E color \in Top.todo :
          LET test_grid == set(copy(Top.working_grid), Top.guess_cell[1],
                               Top.guess_cell[2], color)
          IN  IF test_grid.raised
              THEN /\ stack' = SetTop([Top EXCEPT !.todo = @ \ {color}])
                   /\ hist' = Count("raised")
              ELSE /\ stack' = Append(SetTop([Top EXCEPT !.todo = @ \ {color},
                                                         !.pc = "called"]),
                                      Frame(test_grid.grid))
                   /\ hist' = [hist EXCEPT !.handed =
                                                Append(@, test_grid.grid)]
    /\ UNCHANGED <<lvars, xvars, puzzle, max_solutions, max_backtracks, grid, metrics,
                   solutions, timed_out, ret, phase, result>>

\* Lines 361-362: after the recursive call returned.
AfterCall ==
    /\ Tick
    /\ phase = "run" /\ stack # <<>> /\ Top.pc = "called"
    /\ IF enough_solutions(solutions, max_solutions)
       THEN stack' = Pop /\ ret' = TRUE
       ELSE stack' = SetTop([Top EXCEPT !.pc = "guess"]) /\ UNCHANGED ret
    /\ UNCHANGED <<lvars, xvars, puzzle, max_solutions, max_backtracks, grid, metrics,
                   solutions, timed_out, phase, result, hist>>

\* Line 366: every value was tried.
EndGuess ==
    /\ Tick
    /\ phase = "run" /\ stack # <<>> /\ Top.pc = "guess" /\ Top.todo = {}
    /\ stack' = Pop
    /\ ret' = (Len(solutions) > 0)
    /\ UNCHANGED <<lvars, xvars, puzzle, max_solutions, max_backtracks, grid, metrics,
                   solutions, timed_out, phase, result, hist>>

\* BacktrackingSolver.solve, lines 271-299: the search returned.
Finish ==
    /\ Tick
    /\ phase = "run" /\ stack = <<>>
    /\ result' = build_result(grid, metrics, solutions, timed_out)
    /\ phase' = "done"
    /\ UNCHANGED <<lvars, xvars, puzzle, max_solutions, max_backtracks, grid, metrics,
                   solutions, timed_out, stack, ret, hist>>

\* validate_puzzle(puzzle) around a finished solve(puzzle,
\* check_uniqueness=True); the budgets below the default stand for searches
\* that outgrow it.
Validate ==
    /\ Tick
    /\ phase = "done" /\ max_solutions = solutions_wanted(TRUE)
    /\ report = NoReport
    /\ report' = validate_puzzle(puzzle, result)
    /\ UNCHANGED <<lvars, svars, level, heap, objs, call>>

Next ==
    \/ Solve
    \/ Enter
    \/ SolveRow
    \/ SolveCol
    \/ EndPass
    \/ TryColor
    \/ AfterCall
    \/ EndGuess
    \/ Finish
    \/ Validate

Spec == Init /\ [][Next]_vars

\* ------------------------------------------------------ propagation runs
\* Solver(puzzle): the grid is all unknown (line 165), or it is assigned
\* afterwards as line 313 does, here with the first cell decided.
StartGrids(p) ==
    LET blank == create_empty(p.width, p.height)
    IN  {blank} \cup {set(blank, 0, 0, v).grid : v \in possible_colors(p)}

InitProp ==
    /\ LineIdle
    /\ OtherIdle
    /\ puzzle \in {p \in Puzzles : p.solution # NoGrid}
    /\ max_solutions = 0
    /\ max_backtracks = 0
    /\ grid \in StartGrids(puzzle)
    /\ metrics = SolverMetrics
    /\ solutions = <<>>
    /\ timed_out = FALSE
    /\ stack = <<>>
    /\ ret = FALSE
    /\ phase = "created"
    /\ result = NoResult
    /\ hist = NoHist

\* Solver.solve, line 176
max_iterations(p) == p.width * p.height * 10

\* The locals of Solver.solve, about to test the loop condition (line 178).
Locals == [pc |-> "while", changed |-> TRUE, iterations |-> 0, idx |-> 0]

\* Solver.solve is called (lines 174-176), for the first time or again on
\* the same Solver once it has returned.
PropSolve ==
    /\ Tick
    /\ \/ phase = "created"
       \/ phase = "returned" /\ hist.runs = 1
    /\ phase' = "prop"
    /\ stack' = <<Locals>>
    /\ hist' = [hist EXCEPT !.runs = @ + 1,
                             !.handed = IF phase = "created" THEN <<grid>>
                                        ELSE @]
    /\ UNCHANGED <<lvars, xvars, puzzle, max_solutions, max_backtracks, grid,
                   metrics, solutions, timed_out, ret, result>>

\* Line 178 and, when the loop is left, lines 210-224.
PropWhile ==
    /\ Tick
    /\ phase = "prop" /\ Top.pc = "while"
    /\ IF Top.changed /\ Top.iterations < max_iterations(puzzle)
       THEN /\ stack' = SetTop([Top EXCEPT !.changed = FALSE,
                                           !.iterations = @ + 1,
                                           !.pc = "rows", !.idx = 0])
            /\ UNCHANGED <<metrics, result, phase>>
       ELSE /\ stack' = <<>>
            /\ phase' = "returned"
            /\ IF is_complete(grid)
               THEN /\ metrics' = [metrics EXCEPT !.cells_solved =
                                       puzzle.width * puzzle.height]
                    /\ result' = SolveResult(TRUE, grid, metrics', 1, FALSE)
               ELSE /\ result' = SolveResult(FALSE, grid, metrics, 0, FALSE)
                    /\ UNCHANGED metrics
    /\ UNCHANGED <<lvars, xvars, puzzle, max_solutions, max_backtracks, grid,
                   solutions, timed_out, ret, hist>>

\* Lines 183-193: one row of the pass.
PropRow ==
    /\ Tick
    /\ phase = "prop" /\ Top.pc = "rows"
    /\ LET r == solve_row(puzzle, grid, metrics, Top.idx)
       IN  IF ~r.valid
           THEN /\ result' = SolveResult(FALSE, grid, metrics, 0, FALSE)
                /\ stack' = <<>>
                /\ phase' = "returned"
                /\ hist' = Count("contradiction")
                /\ UNCHANGED <<grid, metrics>>
           ELSE /\ grid' = r.grid
                /\ metrics' = r.metrics
                /\ stack' = SetTop(
                       [Top EXCEPT !.changed = @ \/ r.changed,
                                   !.idx = IF @ + 1 < puzzle.height
                                           THEN @ + 1 ELSE 0,
                                   !.pc = IF Top.idx + 1 < puzzle.height
                                          THEN "rows" ELSE "cols"])
                /\ UNCHANGED <<result, phase, hist>>
    /\ UNCHANGED <<lvars, xvars, puzzle, max_solutions, max_backtracks,
                   solutions, timed_out, ret>>

\* Lines 196-205: one column of the pass.
PropCol ==
    /\ Tick
    /\ phase = "prop" /\ Top.pc = "cols"
    /\ LET r == solve_col(puzzle, grid, metrics, Top.idx)
       IN  IF ~r.valid
           THEN /\ result' = SolveResult(FALSE, grid, metrics, 0, FALSE)
                /\ stack' = <<>>
                /\ phase' = "returned"
                /\ hist' = Count("contradiction")
                /\ UNCHANGED <<grid, metrics>>
           ELSE /\ grid' = r.grid
                /\ metrics' = r.metrics
                /\ stack' = SetTop(
                       [Top EXCEPT !.changed = @ \/ r.changed,
                                   !.idx = IF @ + 1 < puzzle.width
                                           THEN @ + 1 ELSE 0,
                                   !.pc = IF Top.idx + 1 < puzzle.width
                                          THEN "cols" ELSE "endpass"])
                /\ UNCHANGED <<result, phase, hist>>
    /\ UNCHANGED <<lvars, xvars, puzzle, max_solutions, max_backtracks,
                   solutions, timed_out, ret>>

\* Lines 207-208: the end of a pass.
PropEndPass ==
    /\ Tick
    /\ phase = "prop" /\ Top.pc = "endpass"
    /\ IF ~Top.changed /\ ~is_complete(grid)
       THEN /\ metrics' = [metrics EXCEPT !.stuck_count = @ + 1]
            /\ hist' = Count("stalled")
       ELSE UNCHANGED <<metrics, hist>>
    /\ stack' = SetTop([Top EXCEPT !.pc = "while"])
    /\ UNCHANGED <<lvars, xvars, puzzle, max_solutions, max_backtracks, grid,
                   solutions, timed_out, ret, phase, result>>

NextProp ==
    \/ PropSolve
    \/ PropWhile
    \/ PropRow
    \/ PropCol
    \/ PropEndPass

SpecProp == InitProp /\ [][NextProp]_vars

\* ------------------------------------------------------------- Grid runs
\* The values a cell can be given, and the cells of the grids a run starts
\* from: two rows of one cell.
CellValues == {None, EMPTY} \cup Palette
StartCells == [1..2 -> [1..1 -> CellValues]]

\* One Grid object, holding any cells.
InitGrid ==
    /\ LineIdle
    /\ puzzle = puzzle_from_grid(<<>>, {})
    /\ max_solutions = 0
    /\ max_backtracks = 0
    /\ grid = create_empty(0, 0)
    /\ metrics = SolverMetrics
    /\ solutions = <<>>
    /\ timed_out = FALSE
    /\ stack = <<>>
    /\ ret = FALSE
    /\ phase = "grid"
    /\ result = NoResult
    /\ hist = NoHist
    /\ report = NoReport
    /\ level = 0
    /\ \E cells \in StartCells :
          /\ heap = cells \o <<[r \in 1..Len(cells) |-> r]>>
          /\ objs = <<[width |-> Len(cells[1]), height |-> Len(cells),
                       cells |-> Len(cells) + 1]>>
    /\ call = NoCall
    /\ clock = 0

\* objs[i].copy(): the new object is kept beside the others.
GridCopy ==
    /\ phase = "grid" /\ Len(objs) < MaxObjs
    /\ \E i \in 1..Len(objs) :
          LET r == Grid_copy(heap, objs[i])
          IN  /\ heap' = r.heap
              /\ objs' = Append(objs, r.grid)
              /\ call' = [op |-> "copy", obj |-> i, row |-> 0, col |-> 0,
                          value |-> None, raised |-> FALSE, changed |-> FALSE]
    /\ UNCHANGED <<lvars, svars, report, level, clock>>

\* objs[i].set(row, col, value)
GridSet ==
    /\ phase = "grid"
    /\ \E i \in 1..Len(objs) :
       \E row \in 0..(objs[i].height - 1) :
       \E col \in 0..(objs[i].width - 1) :
       \E value \in CellValues :
          LET r == Grid_set(heap, objs[i], row, col, value)
          IN  /\ heap' = r.heap
              /\ call' = [op |-> "set", obj |-> i, row |-> row, col |-> col,
                          value |-> value, raised |-> r.raised,
                          changed |-> r.changed]
    /\ UNCHANGED <<lvars, svars, report, level, objs, clock>>

NextGrid ==
    \/ GridCopy
    \/ GridSet

SpecGrid == InitGrid /\ [][NextGrid]_vars

\* ---------------------------------------------------------- metrics runs
\* The metric fields, and every SolverMetrics value with fields up to
\* MaxMetric.
MetricFields ==
    {"total_steps", "cells_solved", "overlap_uses", "stuck_count",
     "backtrack_depth", "backtrack_count"}
MetricValues == [MetricFields -> 0..MaxMetric]

InitMetrics ==
    /\ LineIdle
    /\ OtherIdle
    /\ puzzle = puzzle_from_grid(<<>>, {})
    /\ max_solutions = 0
    /\ max_backtracks = 0
    /\ grid = create_empty(0, 0)
    /\ metrics \in MetricValues
    /\ solutions = <<>>
    /\ timed_out = FALSE
    /\ stack = <<>>
    /\ ret = FALSE
    /\ phase = "metrics"
    /\ result = NoResult
    /\ hist = NoHist

\* One call metrics.max_technique_level(), as calculate_difficulty makes it.
Grade ==
    /\ Tick
    /\ phase = "metrics"
    /\ level' = max_technique_level(metrics)
    /\ phase' = "graded"
    /\ UNCHANGED <<lvars, puzzle, max_solutions, max_backtracks, grid, metrics,
                   solutions, timed_out, stack, ret, result, hist, report,
                   heap, objs, call>>

NextMetrics == Grade

SpecMetrics == InitMetrics /\ [][NextMetrics]_vars

\* ---------------------------------------------------- line-solver claims
\* The colours a clue list names.
ClueColors(cl) == {cl[k].color : k \in 1..Len(cl)}

\* The full assignments whose run decomposition is cl and which agree with
\* every known cell of l.  Only assignments over EMPTY and the colours of
\* cl are enumerated: a cell of any other colour would start a run that cl
\* does not list.
Consistent(l, cl) ==
    {a \in [1..Len(l) -> {EMPTY} \cup ClueColors(cl)] :
        /\ \A i \in 1..Len(l) : l[i] = None \/ l[i] = a[i]
        /\ generate_clues(a) = cl}

\* Sum of the clue counts plus one separator per adjacent same-colour pair.
MinWidth(cl) ==
    sum_counts(cl, 0)
    + Cardinality({i \in 1..(Len(cl) - 1) : cl[i].color = cl[i + 1].color})

\* C5: when an arrangement consistent with the line exists, solve_line
\* returns a line in which every determined cell has the value it has in
\* every consistent arrangement, and every known cell keeps its value.
C5_LineSound ==
    lpc = "solved" =>
        LET cons == Consistent(line, clues)
        IN  cons # {} =>
              /\ out.valid
              /\ Len(out.line) = Len(line)
              /\ \A i \in 1..Len(line) :
                    /\ out.line[i] # None => \A a \in cons : a[i] = out.line[i]
                    /\ line[i] # None => out.line[i] = line[i]

\* C5 witness: a line with a known cell and several consistent arrangements
\* in which solve_line determined a cell that was unknown.
C5_Witness ==
    /\ lpc = "solved"
    /\ out.valid
    /\ Cardinality(Consistent(line, clues)) >= 2
    /\ \E i, j \in 1..Len(line) :
          line[i] = None /\ out.line[i] # None /\ line[j] # None

\* C6: for a non-empty clue list the enumerated arrangements are exactly
\* the consistent full assignments, each once, and solve_line determines a
\* cell exactly when all of them agree on it.
C6_LineExact ==
    (lpc = "solved" /\ clues # <<>>) =>
        LET cons == Consistent(line, clues)
        IN  /\ {arrs[k] : k \in 1..Len(arrs)} = cons
            /\ Len(arrs) = Cardinality(cons)
            /\ cons # {} =>
                  /\ out.valid
                  /\ \A i \in 1..Len(line) :
                        out.line[i] # None <=>
                            Cardinality({a[i] : a \in cons}) = 1

\* C6 witness: length 5 with one clue of 3 determines only index 2 (0-based).
C6_Witness ==
    /\ lpc = "solved"
    /\ line = <<None, None, None, None, None>>
    /\ clues = <<Clue(3, 1)>>
    /\ Len(arrs) = 3
    /\ out = Valid(<<None, None, 1, None, None>>)

\* C7: solve_line returns the contradiction sentinel exactly when no full
\* assignment has the clues as run decomposition and agrees with the known
\* cells; in particular when the clues need more cells than the line has.
C7_LineContradiction ==
    lpc = "solved" =>
        /\ (~out.valid) <=> (Consistent(line, clues) = {})
        /\ MinWidth(clues) > Len(line) => ~out.valid

\* C7 witness: a known cell conflicts with the only possible placement.
C7_Witness ==
    /\ lpc = "solved"
    /\ line = <<None, EMPTY, None>>
    /\ clues = <<Clue(3, 1)>>
    /\ ~out.valid

\* The other case of C7: the clues need more cells than the line has.
C7_WitnessTooWide ==
    /\ lpc = "solved"
    /\ line = <<None, None>>
    /\ clues = <<Clue(1, 1), Clue(1, 1)>>
    /\ ~out.valid

\* C8: with no clues solve_line returns the all-empty line when no cell is
\* known to hold a colour, and the contradiction sentinel otherwise.
C8_NoClues ==
    (lpc = "solved" /\ clues = <<>>) =>
        IF \E i \in 1..Len(line) : line[i] \in Palette
        THEN ~out.valid
        ELSE out = Valid([i \in 1..Len(line) |-> EMPTY])

\* C8 witness: a known coloured cell and no clues.
C8_Witness ==
    /\ lpc = "solved"
    /\ clues = <<>>
    /\ line = <<1, None, None>>
    /\ ~out.valid

\* The other case of C8: three unknown cells become three empty cells.
C8_WitnessAllEmpty ==
    /\ lpc = "solved"
    /\ clues = <<>>
    /\ line = <<None, None, None>>
    /\ out = Valid(<<EMPTY, EMPTY, EMPTY>>)

\* --------------------------------------------------------- search claims
\* A column of a grid of cells (1-based).
Column(cells, c) == [r \in 1..Len(cells) |-> cells[r][c]]

\* The cells satisfy the puzzle: every row and every column has exactly its
\* clue list as run decomposition.
Satisfies(p, cells) ==
    /\ \A r \in 1..p.height : generate_clues(cells[r]) = p.row_clues[r]
    /\ \A c \in 1..p.width : generate_clues(Column(cells, c)) = p.col_clues[c]

\* The complete grids over the palette and empty that satisfy the puzzle.
Solutions(p) ==
    {cells \in [1..p.height -> [1..p.width -> {EMPTY} \cup p.colors]] :
        Satisfies(p, cells)}

\* The colours the clues of a puzzle name.
PuzzleClueColors(p) ==
    UNION ({ClueColors(p.row_clues[r]) : r \in 1..p.height}
           \cup {ClueColors(p.col_clues[c]) : c \in 1..p.width})

\* The 2x2 diagonal puzzle of test_checkerboard_small.
Diagonal == puzzle_from_array(<<<<1, 0>>, <<0, 1>>>>)

\* C1: when the palette holds every clue colour and solve(puzzle,
\* check_uniqueness=True) did not time out, solutions_found is min(N, 2),
\* N the number of complete grids that satisfy the puzzle.
C1_SolutionCount ==
    (/\ phase = "done"
     /\ max_solutions = 2
     /\ PuzzleClueColors(puzzle) \subseteq puzzle.colors
     /\ ~result.timed_out)
    => result.solutions_found = Min(Cardinality(Solutions(puzzle)), 2)

\* C1 witness: a uniqueness check that guessed, did not time out, and
\* reported 2 on a puzzle with more than two solutions.
C1_Witness ==
    /\ phase = "done"
    /\ max_solutions = 2
    /\ ~result.timed_out
    /\ hist.guessed > 0
    /\ result.solutions_found = 2
    /\ Cardinality(Solutions(puzzle)) > 2

\* Further cases of C1: no solution, and exactly one found after a guess.
C1_WitnessNone ==
    /\ phase = "done" /\ max_solutions = 2 /\ ~result.timed_out
    /\ PuzzleClueColors(puzzle) \subseteq puzzle.colors
    /\ result.solutions_found = 0
C1_WitnessOne ==
    /\ phase = "done" /\ max_solutions = 2 /\ ~result.timed_out
    /\ hist.guessed > 0
    /\ result.solutions_found = 1

\* The precondition of C1 matters: with a clue colour missing from the
\* palette the count can differ.
C1_WithoutPalette ==
    (phase = "done" /\ max_solutions = 2 /\ ~result.timed_out)
    => result.solutions_found = Min(Cardinality(Solutions(puzzle)), 2)

\* C2: round trip.  When the puzzle built from a grid G has G as its only
\* solution and the search did not time out, solve returns solved = true
\* with a grid equal to G cell for cell, so _grids_match holds.
C2_RoundTrip ==
    (/\ phase = "done"
     /\ puzzle.solution # NoGrid
     /\ ~result.timed_out
     /\ Solutions(puzzle) = {puzzle.solution})
    => /\ result.solved
       /\ result.grid.cells = puzzle.solution
       /\ grids_match(result.grid, puzzle.solution)

\* C2 witness: a round trip through a search that had to guess, on a grid
\* with both colours and an empty cell.
C2_Witness ==
    /\ phase = "done"
    /\ puzzle.solution # NoGrid
    /\ ~result.timed_out
    /\ Solutions(puzzle) = {puzzle.solution}
    /\ hist.guessed > 0
    /\ result.solved
    /\ result.grid.cells = puzzle.solution

\* C3: every recorded grid, and so every grid returned with solved = true,
\* is complete and satisfies the puzzle.
C3_RecordedSound ==
    /\ \A k \in 1..Len(solutions) :
          /\ is_complete(solutions[k])
          /\ Satisfies(puzzle, solutions[k].cells)
    /\ (phase = "done" /\ result.solved) =>
          /\ is_complete(result.grid)
          /\ Satisfies(puzzle, result.grid.cells)

\* C3 witness: a grid recorded in a branch below a guess and returned.
C3_Witness ==
    /\ phase = "done"
    /\ result.solved
    /\ hist.guessed > 0
    /\ Len(solutions) >= 1

\* C4: never more than max_solutions recorded grids; a uniqueness check
\* never reports more than 2.
C4_Cap ==
    /\ Len(solutions) <= max_solutions
    /\ (phase = "done" /\ max_solutions = 2) => result.solutions_found <= 2

\* C4 witness: a finished uniqueness check of a puzzle with more than two
\* solutions, two of them recorded.
C4_Witness ==
    /\ phase = "done"
    /\ max_solutions = 2
    /\ Len(solutions) = 2
    /\ Cardinality(Solutions(puzzle)) > 2

C10_TimedOutDistinct ==
    /\ hist.refused > 0 => timed_out
    /\ phase = "done" =>
          /\ result.timed_out = (hist.refused > 0)
          /\ (~result.timed_out /\ result.solutions_found = 0) =>
                /\ hist.capped = 0
                /\ hist.complete = 0
                /\ hist.entered = hist.guessed + hist.contradiction
                /\ hist.entered =
                      1 + hist.guessed * Cardinality(possible_colors(puzzle))

\* C10 witness: a search that recorded one solution, was then refused a
\* branch, and reports timed out.
C10_Witness ==
    /\ phase = "done"
    /\ hist.refused > 0
    /\ Len(solutions) = 1
    /\ max_solutions = 2
    /\ result.timed_out
    /\ result.solutions_found = 0

\* The other case of C10: no solution after a guess, every branch a
\* contradiction.
C10_WitnessNone ==
    /\ phase = "done"
    /\ ~result.timed_out
    /\ result.solutions_found = 0
    /\ hist.guessed > 0
\* C11: a solve that timed out is reported as too_complex and as nothing
\* else; a report is valid exactly when it says valid_unique, and it says so
\* only for a solve that did not time out and found exactly one solution.
C11_TimedOutTooComplex ==
    report # NoReport =>
        /\ (report.solve_result # NoResult /\ result.timed_out)
               => report.result = "too_complex"
        /\ is_valid(report) <=> report.result = "valid_unique"
        /\ is_valid(report) =>
               /\ report.solve_result = result
               /\ ~result.timed_out
               /\ result.solutions_found = 1
        /\ report.solve_result = NoResult <=> report.result = "invalid_empty"

C11_Witness ==
    /\ report.result = "too_complex"
    /\ result.timed_out /\ hist.guessed > 0

C11_WitnessValid == is_valid(report) /\ hist.guessed > 0
C11_WitnessMultiple == report.result = "valid_multiple"
C11_WitnessUnsolvable == report.result = "unsolvable"

C12_WitnessStuck == phase = "graded" /\ level = 2 /\ metrics.total_steps > 0
C12_WitnessPlain == phase = "graded" /\ level = 1 /\ metrics.cells_solved > 0

\* C13: the metrics solve() returns for a puzzle on which propagation stalled
\* (a pass of a branch ended without new information on an incomplete grid)
\* have stuck_count > 0.
C13_StuckCounted ==
    (phase = "done" /\ hist.stalled > 0) => result.metrics.stuck_count > 0

\* C13, Solver.solve alone: stuck_count is the number of passes that ended
\* without new information on an incomplete grid.
C13_PropStuckCounted ==
    phase \in {"prop", "returned"} => metrics.stuck_count = hist.stalled

C13_PropWitness == phase = "returned" /\ metrics.stuck_count > 0

\* C14: after a search, backtrack_depth is the largest number of nested
\* guesses on any explored path, 0 when no guess was made.
C14_DepthIsMaxNesting ==
    phase = "done" => result.metrics.backtrack_depth = hist.nested

C14_WitnessOneLevel ==
    phase = "done" /\ hist.nested = 1 /\ result.metrics.backtrack_depth = 1

\* C15: when Solver.solve has returned without a contradiction, a second
\* run of it on the same grid changes no cell; and solving any row or column
\* of the grid a second time gives what solving it once gave.
RowsAndCols(p, g) ==
    {<<get_row(g, r), p.row_clues[r + 1]>> : r \in 0..(p.height - 1)}
    \cup {<<get_col(g, c), p.col_clues[c + 1]>> : c \in 0..(p.width - 1)}

C15_Idempotent ==
    /\ (phase = "prop" /\ hist.runs = 2 /\ ~(hist.contradiction > 0))
           => grid = result.grid
    /\ phase \in {"prop", "returned"} =>
           \A lc \in RowsAndCols(puzzle, grid) :
              LET once == solve_line(lc[1], lc[2])
              IN  once.valid => solve_line(once.line, lc[2]) = once

C15_Witness ==
    /\ phase = "prop" /\ hist.runs = 2 /\ hist.contradiction = 0
    /\ Top.pc = "endpass"
    /\ ~is_complete(grid)
    /\ grid # create_empty(puzzle.width, puzzle.height)
    /\ grid \notin StartGrids(puzzle)

\* C15, for every line and clue list: solving the result of solve_line
\* again returns it unchanged.
C15_LineIdempotent ==
    (lpc = "solved" /\ out.valid) => solve_line(out.line, clues) = out

C15_LineWitness ==
    /\ lpc = "solved" /\ out.valid /\ out.line # line
    /\ \E i \in 1..Len(line) : out.line[i] = None

\* Every cell determined in grid a holds the same value in grid b.
Extends(a, b) ==
    \A r \in 1..a.height : \A c \in 1..a.width :
        a.cells[r][c] # None => b.cells[r][c] = a.cells[r][c]

\* The grids along the path from the root branch to the innermost one: each
\* branch's received grid, then its working grid.
PathGrids(st) ==
    [i \in 1..(2 * Len(st)) |->
        IF i % 2 = 1 THEN st[(i + 1) \div 2].grid
        ELSE st[i \div 2].working_grid]

\* C16: along every path of the search tree a determined cell keeps its
\* value: each grid on the path extends the one before it, and a step of a
\* branch (a line of propagation, a guess) changes no determined cell of it.
C16_PathMonotone ==
    /\ [](phase = "run" =>
            \A i \in 1..(2 * Len(stack) - 1) :
                Extends(PathGrids(stack)[i], PathGrids(stack)[i + 1]))
    /\ [][\A k \in 1..Len(stack) :
            k <= Len(stack') =>
                /\ stack'[k].grid = stack[k].grid
                /\ Extends(stack[k].working_grid, stack'[k].working_grid)]_vars

C16_Witness ==
    /\ phase = "run" /\ Len(stack) = 3
    /\ Top.pc = "endpass"
    /\ Top.working_grid # Top.grid
    /\ stack[1].working_grid # create_empty(puzzle.width, puzzle.height)

\* b to the power e.
RECURSIVE Pow(_, _)
Pow(b, e) == IF e = 0 THEN 1 ELSE b * Pow(b, e - 1)

\* A bound on the steps of a search of puzzle p: a branch makes at most one
\* pass per cell and one more, then tries each value once; a path holds at
\* most one guess per cell, so the tree has at most 1 + k + ... + k^cells
\* branches for k values.
StepBound(p) ==
    LET cells  == p.width * p.height
        k      == Cardinality(possible_colors(p))
        branch == 1 + (cells + 1) * (p.height + p.width + 1) + 2 * k + 1
        RECURSIVE nodes(_)
        nodes(d) == IF d = 0 THEN 1 ELSE Pow(k, d) + nodes(d - 1)
    IN  3 + nodes(cells) * branch

\* Some step of the search can be taken.  SolveRow and SolveCol assign every
\* variable on both branches, so they can be taken wherever their guard
\* holds.
CanStep ==
    \/ ENABLED (Solve \/ Enter \/ EndPass \/ TryColor \/ AfterCall
                   \/ EndGuess \/ Finish)
    \/ phase = "run" /\ stack # <<>> /\ Top.pc \in {"rows", "cols"}

\* C17: solve() terminates and returns a SolveResult without raising: the
\* write of a guess never raises the conflict error, since the guessed cell
\* is unknown in the working grid; a line contradiction ends its branch with
\* a return value; until solve() has returned a step can be taken, and the
\* number of steps taken never exceeds the bound.
C17_ReturnsWithoutRaising ==
    /\ hist.raised = 0
    /\ (phase = "run" /\ stack # <<>> /\ Top.pc \in {"guess", "called"}) =>
           get(Top.working_grid, Top.guess_cell[1], Top.guess_cell[2]) = None
    /\ phase \in {"ready", "run"} => CanStep
    /\ clock <= StepBound(puzzle)
    /\ phase = "done" => result # NoResult

C17_Witness ==
    /\ phase = "done" /\ result # NoResult
    /\ hist.contradiction > 0 /\ hist.guessed > 0

\* The cell a call of set addresses, in the object's grid on heap h.
Addressed(h, cl) == Value(h, objs[cl.obj]).cells[cl.row + 1][cl.col + 1]

\* C18: for every grid and every call set(row, col, v), v unknown, empty or
\* a colour: a cell that holds v already stays as it is and no change is
\* reported; a determined cell with a value other than v makes the call fail
\* with the conflict, the grid unchanged; and only an unknown cell is changed
\* by a call that succeeds.
C18_SetContract ==
    [][call'.op = "set" =>
        LET cell   == Addressed(heap, call')
            before == Value(heap, objs[call'.obj])
            after  == Value(heap', objs[call'.obj])
        IN  /\ cell = call'.value =>
                  ~call'.raised /\ ~call'.changed /\ after = before
            /\ (cell # None /\ cell # call'.value) =>
                  call'.raised /\ after = before
            /\ after # before => (cell = None /\ ~call'.raised)]_vars

\* C18, for the values a solver writes (empty or a colour): the same three
\* cases.
C18_SetKnownValue ==
    [][(call'.op = "set" /\ call'.value # None) =>
        LET cell   == Addressed(heap, call')
            before == Value(heap, objs[call'.obj])
            after  == Value(heap', objs[call'.obj])
        IN  /\ cell = call'.value =>
                  ~call'.raised /\ ~call'.changed /\ after = before
            /\ (cell # None /\ cell # call'.value) =>
                  call'.raised /\ after = before
            /\ after # before => (cell = None /\ ~call'.raised)]_vars

C18_WitnessConflict == call.op = "set" /\ call.raised
C18_WitnessErased ==
    /\ call.op = "set" /\ call.value = None /\ call.changed
    /\ Addressed(heap, call) = None

C19_SearchIsolated ==
    [][\A k \in 1..Len(stack) :
         k <= Len(stack') =>
            /\ stack'[k].grid = stack[k].grid
            /\ (k < Len(stack) /\ k < Len(stack')) =>
                  stack'[k].working_grid = stack[k].working_grid
            /\ (Len(stack') > Len(stack) /\ k = Len(stack)) =>
                  /\ stack'[k].working_grid = stack[k].working_grid
                  /\ stack'[k + 1].grid # stack[k].working_grid]_vars

\* Propagation has nothing to add to grid g and meets no contradiction in it.
AtFixpoint(p, g) ==
    \A lc \in RowsAndCols(p, g) :
        LET once == solve_line(lc[1], lc[2])
        IN  once.valid /\ once.line = lc[1]

\* The puzzle of the height x width image filled with colour c.
Solid(height, width, c) ==
    puzzle_from_array([r \in 1..height |-> [col \in 1..width |-> c]])

\* C20: the guess counter grows only by one, and only in a branch whose
\* propagation has reached a fixpoint without contradiction on a grid that
\* is still incomplete; so a puzzle that propagation alone completes from
\* the all-unknown grid is returned solved, with the propagated grid and a
\* guess count of 0.
C20_GuessOnlyWhenStuck ==
    /\ [][metrics'.backtrack_count # metrics.backtrack_count =>
            /\ metrics'.backtrack_count = metrics.backtrack_count + 1
            /\ phase = "run" /\ stack # <<>> /\ Top.pc = "endpass"
            /\ AtFixpoint(puzzle, Top.working_grid)
            /\ ~is_complete(Top.working_grid)]_vars
    /\ []((phase = "done" /\ max_backtracks > 0) =>
            LET st == propagate(puzzle,
                                create_empty(puzzle.width, puzzle.height))
            IN  (st.valid /\ first_unknown(st.grid) = <<-1, -1>>) =>
                    /\ result.solved
                    /\ result.grid = st.grid
                    /\ result.metrics.backtrack_count = 0)

C20_Witness ==
    /\ phase = "done" /\ puzzle = Solid(2, 2, 1)
    /\ result.solved
    /\ result.grid.cells = <<<<1, 1>>, <<1, 1>>>>
    /\ result.metrics.backtrack_count = 0

C20_WitnessGuess ==
    /\ phase = "run" /\ stack # <<>> /\ Top.pc = "guess"
    /\ Len(stack) = 2
    /\ metrics.backtrack_count = 2

\* C21: in every state of a search the guess counter is at most
\* max_backtracks: a branch is entered only while the counter is below the
\* budget, and makes at most one guess.
C21_BudgetBound ==
    phase \in {"ready", "run", "done"} =>
        /\ metrics.backtrack_count <= max_backtracks
        /\ (stack # <<>> /\ Top.pc \in {"rows", "cols", "endpass"}) =>
               metrics.backtrack_count < max_backtracks

C21_Witness ==
    /\ phase = "done" /\ timed_out
    /\ max_backtracks > 0
    /\ metrics.backtrack_count = max_backtracks

\* A stop condition of the running search holds: max_solutions grids are
\* recorded, or timed_out is set.
Stopped ==
    phase = "run" /\ (Len(solutions) >= max_solutions \/ timed_out)

\* C22: once a stop condition holds, and until solve() returns, no line is
\* solved, no guess is counted and no solution is recorded: no branch is in
\* its propagation, and no step changes the metrics, the solutions or the
\* flag; a uniqueness check of a puzzle with more than two solutions ends
\* with solutions_found = 2.
C22_StopAbsorbing ==
    /\ []((Stopped /\ stack # <<>>) =>
            Top.pc \in {"entry", "guess", "called"})
    /\ [][Stopped =>
            /\ metrics' = metrics
            /\ solutions' = solutions
            /\ timed_out' = timed_out
            /\ hist'.entered = hist.entered]_vars
    /\ []((phase = "done" /\ max_solutions = 2 /\ ~result.timed_out
               /\ PuzzleClueColors(puzzle) \subseteq puzzle.colors
               /\ Cardinality(Solutions(puzzle)) > 2) =>
            (result.solutions_found = 2 /\ Len(solutions) = 2))

C22_Witness ==
    /\ Stopped /\ Len(solutions) = 2 /\ Len(stack) >= 2
    /\ \E k \in 1..Len(stack) : stack[k].todo # {}

C22_WitnessTimedOut ==
    /\ Stopped /\ timed_out /\ Len(solutions) = 1
    /\ stack # <<>> /\ Top.pc = "guess" /\ Top.todo # {}

C22_WitnessMany ==
    /\ phase = "done" /\ result.solutions_found = 2
    /\ Cardinality(Solutions(puzzle)) > 2

\* The line a pass is about to solve at position <<pc, i>> of grid g: its
\* cells as <<row, column>> pairs (1-based) in order, and its clues.
LineCells(p, pc, i) ==
    IF pc = "rows" THEN [k \in 1..p.width |-> <<i + 1, k>>]
    ELSE [k \in 1..p.height |-> <<k, i + 1>>]
LineClueList(p, pc, i) ==
    IF pc = "rows" THEN p.row_clues[i + 1] ELSE p.col_clues[i + 1]
LineSolved(p, g, pc, i) ==
    solve_line([k \in 1..Len(LineCells(p, pc, i)) |->
                   g.cells[LineCells(p, pc, i)[k][1]][LineCells(p, pc, i)[k][2]]],
               LineClueList(p, pc, i))

\* The position after line <<pc, i>> in a pass: the next row, the first
\* column after the last row, the next column, the end of the pass.
NextInPass(p, pc, i) ==
    IF pc = "rows"
    THEN IF i + 1 < p.height THEN <<"rows", i + 1>> ELSE <<"cols", 0>>
    ELSE IF i + 1 < p.width THEN <<"cols", i + 1>> ELSE <<"endpass", 0>>

\* Grid b is grid a with the solved line merged into its unknown cells, and
\* every cell outside the line as it was.
Merged(p, a, b, pc, i, solved) ==
    \A r \in 1..p.height : \A c \in 1..p.width :
        LET ks == {k \in 1..Len(LineCells(p, pc, i)) :
                      LineCells(p, pc, i)[k] = <<r, c>>}
        IN  IF ks = {} \/ a.cells[r][c] # None
            THEN b.cells[r][c] = a.cells[r][c]
            ELSE \A k \in ks : b.cells[r][c] = solved[k]

\* C23: a pass solves row 0, then the next rows in index order, then the
\* columns in index order, each step writing the solved line and nothing
\* else; when a line is contradictory the grid is not written, no later
\* line is solved and the propagation fails at once: Solver.solve returns
\* solved = false with solutions_found = 0, a branch of the search returns
\* without a recorded solution and without a guess.
C23_PassOrderAbort ==
    /\ [][(phase = "prop" /\ Top.pc = "while" /\ phase' = "prop") =>
            (stack'[1].pc = "rows" /\ stack'[1].idx = 0)]_vars
    /\ [][(phase = "prop" /\ Top.pc \in {"rows", "cols"}) =>
            LET res == LineSolved(puzzle, grid, Top.pc, Top.idx)
            IN  IF ~res.valid
                THEN /\ grid' = grid /\ metrics' = metrics
                     /\ phase' = "returned" /\ stack' = <<>>
                     /\ ~result'.solved /\ result'.solutions_found = 0
                     /\ result'.grid = grid
                ELSE /\ phase' = "prop"
                     /\ <<stack'[1].pc, stack'[1].idx>> =
                            NextInPass(puzzle, Top.pc, Top.idx)
                     /\ Merged(puzzle, grid, grid', Top.pc, Top.idx,
                               res.line)]_vars
    /\ [][(phase = "run" /\ stack # <<>> /\ Top.pc \in {"rows", "cols"}) =>
            LET res == LineSolved(puzzle, Top.working_grid, Top.pc, Top.idx)
            IN  IF ~res.valid
                THEN /\ stack' = Pop /\ ret' = FALSE
                     /\ solutions' = solutions /\ metrics' = metrics
                ELSE /\ Len(stack') = Len(stack)
                     /\ <<stack'[Len(stack)].pc, stack'[Len(stack)].idx>> =
                            NextInPass(puzzle, Top.pc, Top.idx)
                     /\ Merged(puzzle, Top.working_grid,
                               stack'[Len(stack)].working_grid,
                               Top.pc, Top.idx, res.line)]_vars
    /\ [][(phase = "run" /\ stack # <<>> /\ Top.pc = "entry"
              /\ Len(stack') = Len(stack)) =>
            (stack'[Len(stack)].pc = "rows"
             /\ stack'[Len(stack)].idx = 0)]_vars

C23_Witness ==
    /\ phase = "returned" /\ hist.contradiction = 1 /\ hist.runs = 1
    /\ ~result.solved /\ result.solutions_found = 0
    /\ metrics.total_steps > puzzle.height
    /\ result.grid \notin StartGrids(puzzle)

C23_WitnessBranch ==
    /\ phase = "run" /\ hist.contradiction > 0 /\ ret = FALSE
    /\ stack # <<>> /\ Top.pc = "called"

\* C24: the cell of a guess is the first unknown cell, in row-major order,
\* of the branch's propagated grid; each value of the palette and empty is
\* tried at most once there; and the grids handed to the branches of one
\* solve are pairwise distinct.
C24_NoGuessRetried ==
    /\ [](\A i, j \in 1..Len(hist.handed) :
            i < j => hist.handed[i] # hist.handed[j])
    /\ []((phase = "run" /\ stack # <<>> /\ Top.pc \in {"guess", "called"}) =>
            /\ get(Top.working_grid, Top.guess_cell[1], Top.guess_cell[2])
                   = None
            /\ \A r \in 0..(puzzle.height - 1) :
               \A c \in 0..(puzzle.width - 1) :
                  (r < Top.guess_cell[1]
                   \/ (r = Top.guess_cell[1] /\ c < Top.guess_cell[2]))
                     => get(Top.working_grid, r, c) # None
            /\ Top.todo \subseteq puzzle.colors \cup {EMPTY})
    /\ [][(phase = "run" /\ Len(stack') > Len(stack) /\ stack # <<>>) =>
            LET child == stack'[Len(stack')].grid
                cell  == Top.guess_cell
                v     == get(child, cell[1], cell[2])
            IN  /\ v \in Top.todo
                /\ stack'[Len(stack)].todo = Top.todo \ {v}
                /\ child = set(Top.working_grid, cell[1], cell[2], v).grid]_vars

C24_Witness ==
    /\ phase = "done" /\ Len(hist.handed) >= 4
    /\ hist.contradiction > 0


\* ------------------------------------------------------------------ C25
\* The maximal runs of a line: the pairs <<first, last>> of indices of a
\* longest stretch of cells holding one non-empty colour.
MaximalRuns(l) ==
    {r \in (1..Len(l)) \X (1..Len(l)) :
        /\ r[1] <= r[2]
        /\ l[r[1]] # EMPTY
        /\ \A i \in r[1]..r[2] : l[i] = l[r[1]]
        /\ (r[1] > 1 => l[r[1] - 1] # l[r[1]])
        /\ (r[2] < Len(l) => l[r[2] + 1] # l[r[1]])}

\* The runs of l that start before index i.
RunsBefore(l, i) == {r \in MaximalRuns(l) : r[1] < i}

FullyDetermined(l) == \A i \in 1..Len(l) : l[i] # None

RECURSIVE SumCounts(_)
SumCounts(cs) == IF cs = <<>> THEN 0 ELSE Head(cs).count + SumCounts(Tail(cs))

\* C25: for a fully determined line generate_clues returns its maximal runs
\* of one non-empty colour from left to right: counts and colours are at
\* least 1, the counts sum to the number of non-empty cells, two consecutive
\* clues of one colour come from runs with an empty cell between them, an
\* all-empty line has no clues, and solve_line on the line with these clues
\* returns the line unchanged.
C25_CluesAreRuns ==
    FullyDetermined(line) =>
        LET cs == generate_clues(line)
            runs == MaximalRuns(line)
            \* the run the k-th clue stands for: the one with k - 1 before it
            run(k) == CHOOSE r \in runs :
                          Cardinality(RunsBefore(line, r[1])) = k - 1
        IN  /\ Len(cs) = Cardinality(runs)
            /\ \A k \in 1..Len(cs) :
                  /\ cs[k].count = run(k)[2] - run(k)[1] + 1
                  /\ cs[k].color = line[run(k)[1]]
                  /\ cs[k].count >= 1
                  /\ cs[k].color >= 1
            /\ SumCounts(cs) = Cardinality({i \in 1..Len(line) : line[i] # EMPTY})
            /\ \A k \in 1..(Len(cs) - 1) :
                  cs[k].color = cs[k + 1].color =>
                      \E i \in (run(k)[2] + 1)..(run(k + 1)[1] - 1) :
                          line[i] = EMPTY
            /\ ((\A i \in 1..Len(line) : line[i] = EMPTY) => cs = <<>>)
            /\ (lpc = "solved" /\ clues = cs =>
                  out.valid /\ out.line = line)

\* C25 witness: solve_line has run on a two-colour line with two adjacent
\* runs and an empty cell, together with the clues generated from it.
C25_Witness ==
    /\ lpc = "solved"
    /\ FullyDetermined(line)
    /\ clues = generate_clues(line)
    /\ Len(clues) = 2
    /\ clues[1].color # clues[2].color
    /\ Len(line) = 3
    /\ \E i \in 1..Len(line) : line[i] = EMPTY

\* C25 witness: two runs of one colour with an empty cell between them.
C25_WitnessSameColor ==
    /\ lpc = "solved"
    /\ FullyDetermined(line)
    /\ clues = generate_clues(line)
    /\ Len(clues) = 2
    /\ clues[1].color = clues[2].color

\* ------------------------------------------------------------------ C26
\* C26: after solve() returns, metrics.total_steps is the number of
\* line-solve attempts of the whole solve, each row and column solved in
\* each branch, the branches that ended in a contradiction and the attempt
\* that found the contradiction included.
C26_StepsCountAttempts ==
    phase = "done" => result.metrics.total_steps = hist.attempts

\* C26: total_steps never exceeds the attempts made, and is short of them by
\* at least one for every contradiction found.
C26_StepsBelowAttempts ==
    phase = "done" =>
        result.metrics.total_steps + hist.contradiction <= hist.attempts

\* C26 witness: a finished solve in which a branch ended in a contradiction
\* after at least one accepted line.
C26_Witness ==
    /\ phase = "done"
    /\ hist.contradiction > 0
    /\ result.metrics.total_steps + hist.contradiction < hist.attempts

\* ------------------------------------------------------------------ C27
\* The values of a set of integers in ascending order.
RECURSIVE Ascending(_)
Ascending(S) ==
    IF S = {} THEN <<>>
    ELSE LET m == CHOOSE x \in S : \A y \in S : x <= y
         IN  <<m>> \o Ascending(S \ {m})

\* _solve_recursive run to its end with the candidate values of every guess
\* tried in ascending order; acc carries the number of recorded solutions
\* (n), backtrack_count (bc) and timed_out (to).  solve_recursive_asc is one
\* call on grid g, try_values_asc the rest of the for loop of one guess.
RECURSIVE solve_recursive_asc(_, _, _, _, _)
RECURSIVE try_values_asc(_, _, _, _, _, _, _)
solve_recursive_asc(p, max_sols, max_bt, g, acc) ==
    IF acc.n >= max_sols THEN acc
    ELSE IF acc.bc >= max_bt THEN [acc EXCEPT !.to = TRUE]
    ELSE LET st   == propagate(p, g)
             cell == first_unknown(st.grid)
         IN  IF ~st.valid THEN acc
             ELSE IF is_complete(st.grid) THEN [acc EXCEPT !.n = @ + 1]
             ELSE IF cell = <<-1, -1>> THEN acc
             ELSE try_values_asc(p, max_sols, max_bt, st.grid, cell,
                                 Ascending(possible_colors(p)),
                                 [acc EXCEPT !.bc = @ + 1])
try_values_asc(p, max_sols, max_bt, g, cell, values, acc) ==
    IF values = <<>> THEN acc
    ELSE LET after == solve_recursive_asc(p, max_sols, max_bt,
                          set(g, cell[1], cell[2], Head(values)).grid, acc)
         IN  IF after.n >= max_sols THEN after
             ELSE try_values_asc(p, max_sols, max_bt, g, cell,
                                 Tail(values), after)

\* The outcome of BacktrackingSolver.solve with ascending candidate order.
AscendingRun(p, max_sols, max_bt) ==
    solve_recursive_asc(p, max_sols, max_bt,
                        create_empty(p.width, p.height),
                        [n |-> 0, bc |-> 0, to |-> FALSE])

\* The verdict a result carries: none, unique or multiple.
Verdict(solved, solutions_found) ==
    IF ~solved THEN "none"
    ELSE IF solutions_found = 1 THEN "unique" ELSE "multiple"

AscendingVerdict(p, max_sols, max_bt) ==
    LET a == AscendingRun(p, max_sols, max_bt)
    IN  IF a.to THEN "none" ELSE Verdict(a.n > 0, a.n)

\* C27 as stated: whatever order the candidate values are tried in, a
\* uniqueness check ends with the verdict of the run that tries them in
\* ascending order.
C27_OrderIndependent ==
    [](phase = "done" /\ max_solutions = 2 =>
         Verdict(result.solved, result.solutions_found)
             = AscendingVerdict(puzzle, 2, max_backtracks))

\* C27: whatever order the candidate values are tried in, a uniqueness
\* check that does not time out ends with the verdict of every other order
\* that does not time out; the order decides only whether the budget runs
\* out first, the metrics, and which grids are recorded.
C27_OrderIndependentInBudget ==
    [](phase = "done" /\ max_solutions = 2 /\ ~result.timed_out =>
         LET a == AscendingRun(puzzle, 2, max_backtracks)
         IN  ~a.to => Verdict(result.solved, result.solutions_found)
                          = Verdict(a.n > 0, a.n))

\* C27 witness: a uniqueness check within its budget that recorded other
\* grids than the ascending order records first, with the same verdict.
C27_Witness ==
    /\ phase = "done" /\ max_solutions = 2 /\ ~result.timed_out
    /\ hist.guessed > 0
    /\ result.solved /\ result.solutions_found = 2
    /\ ~AscendingRun(puzzle, 2, max_backtracks).to
    /\ LET cell == first_unknown(propagate(puzzle, create_empty(puzzle.width, puzzle.height)).grid)
       IN  get(result.grid, cell[1], cell[2]) # EMPTY

\* C27: a run that found two solutions on a puzzle and budget for which the
\* ascending order times out.
C27_WitnessTimedOut ==
    /\ phase = "done" /\ max_solutions = 2
    /\ result.solved /\ result.solutions_found = 2
    /\ AscendingRun(puzzle, 2, max_backtracks).to

\* ------------------------------------------------------------------ C28
\* The number of determined cells of a grid.
Known(g) ==
    Cardinality({rc \in (0..(g.height - 1)) \X (0..(g.width - 1)) :
                    get(g, rc[1], rc[2]) # None})

\* The line step Solver.solve is about to take.
PropLine ==
    IF Top.pc = "rows" THEN solve_row(puzzle, grid, metrics, Top.idx)
    ELSE solve_col(puzzle, grid, metrics, Top.idx)

\* C28: a line step that reports a change determines a cell that was
\* unknown and one that reports none leaves the grid alone, so the iteration
\* count of Solver.solve stays within the determined cells plus one, hence
\* within width * height + 1 and below the cap of 10 * width * height, and
\* the loop is only left because a pass changed nothing; each guess hands on
\* a grid with one more determined cell, so the nesting of branches stays
\* within the number of cells and the search ends within its step bound.
C28_Termination ==
    /\ [](phase = "prop" /\ Top.pc \in {"rows", "cols"} =>
            /\ PropLine.valid /\ PropLine.changed =>
                   Known(PropLine.grid) > Known(grid)
            /\ PropLine.valid /\ ~PropLine.changed => PropLine.grid = grid)
    /\ [](phase = "prop" =>
            /\ Top.iterations <= Known(grid) + 1
            /\ Top.iterations <= puzzle.width * puzzle.height + 1
            /\ Top.iterations < max_iterations(puzzle))
    /\ [][phase = "prop" /\ Top.pc = "while" /\ phase' = "returned" =>
              ~Top.changed]_vars
    /\ [][phase = "run" /\ phase' = "run" /\ Len(stack') > Len(stack) =>
              Known(stack'[Len(stack')].grid) = Known(Top.working_grid) + 1]_vars
    /\ [](phase = "run" /\ stack # <<>> =>
            /\ Len(stack) <= Known(Top.grid) + 1
            /\ Len(stack) <= puzzle.width * puzzle.height + 1)
    /\ [](phase \in {"run", "done"} =>
            /\ hist.nested <= puzzle.width * puzzle.height
            /\ clock <= StepBound(puzzle))

\* C28 witness: Solver.solve returned after a third iteration, two passes
\* having changed the grid, on a grid it could not complete.
C28_Witness ==
    /\ phase = "returned"
    /\ hist.runs = 1
    /\ hist.contradiction = 0
    /\ hist.stalled > 0
    /\ Known(grid) >= 2
    /\ metrics.total_steps >= 3 * (puzzle.width + puzzle.height)

\* C28 witness: a search that nested two guesses and has returned.
C28_WitnessDepth ==
    /\ phase = "done"
    /\ hist.nested >= 2
    /\ hist.guessed >= 2

\* ------------------------------------------------------------------ C29
\* C29: in the result of the backtracking solve, solved is true exactly when
\* the search did not time out and recorded a grid, two recorded grids
\* included; a timed-out search gives solved = false and solutions_found = 0
\* also when a grid was recorded; the returned grid is complete exactly when
\* solved is true, being the first recorded grid, and otherwise it is the
\* solver's top-level grid, still all unknown.
C29_ResultConsistent ==
    phase = "done" =>
        /\ result.solved <=> (~result.timed_out /\ Len(solutions) >= 1)
        /\ result.timed_out = timed_out
        /\ (Len(solutions) = 2 /\ ~timed_out) => result.solved
        /\ result.timed_out => (~result.solved /\ result.solutions_found = 0)
        /\ is_complete(result.grid) <=> result.solved
        /\ result.solved => result.grid = solutions[1]
        /\ ~result.solved =>
              /\ result.grid = grid
              /\ result.grid = create_empty(puzzle.width, puzzle.height)

\* C29 witness: a timed-out search that had recorded a grid and returns the
\* all-unknown top-level grid with solved = false.
C29_Witness ==
    /\ phase = "done"
    /\ timed_out
    /\ Len(solutions) = 1
    /\ ~result.solved
    /\ ~is_complete(result.grid)
    /\ Known(result.grid) = 0

\* C29 witness: two grids recorded, solved = true with a complete grid.
C29_WitnessTwo ==
    /\ phase = "done"
    /\ Len(solutions) = 2
    /\ result.solved
    /\ is_complete(result.grid)

\* ------------------------------------------------------------------ C30
\* The grid a propagation run started from.
StartGrid == hist.handed[1]

\* Cells b holds every determined cell of grid a.
Agrees(a, b) ==
    \A r \in 1..a.height : \A c \in 1..a.width :
        a.cells[r][c] # None => b[r][c] = a.cells[r][c]

\* The complete grids over the palette and empty.
CompleteCells(p) == [1..p.height -> [1..p.width -> {EMPTY} \cup p.colors]]

\* C30: in every state of a propagation run started from grid K, each
\* determined cell holds the value it has in every solution of the puzzle
\* that agrees with K, so no such solution is excluded; a contradiction is
\* reported only when no solution agrees with K; and when Solver.solve on the
\* all-unknown grid returns solved = true, the returned grid is the one
\* solution of the puzzle.
C30_PropagationSound ==
    /\ [](phase = "prop" /\ hist.runs = 1 /\ Top.iterations = 0 =>
            grid = StartGrid)
    /\ [][(phase' = "prop" /\ grid' # grid) =>
            \A s \in CompleteCells(puzzle) :
                (Agrees(StartGrid, s) /\ ~Agrees(grid', s))
                    => ~Satisfies(puzzle, s)]_vars
    /\ [](phase = "returned" =>
            /\ hist.contradiction > 0 =>
                  \A s \in CompleteCells(puzzle) :
                      Agrees(StartGrid, s) => ~Satisfies(puzzle, s)
            /\ (/\ result.solved
                /\ StartGrid = create_empty(puzzle.width, puzzle.height)) =>
                  Solutions(puzzle) = {result.grid.cells})

\* C30 witness: a run from a grid with a decided cell that determined
\* further cells and stalled, several solutions agreeing with its start.
C30_Witness ==
    /\ phase = "returned"
    /\ hist.contradiction = 0
    /\ StartGrid # create_empty(puzzle.width, puzzle.height)
    /\ Known(grid) > Known(StartGrid)
    /\ ~is_complete(grid)
    /\ Cardinality({s \in Solutions(puzzle) : Agrees(StartGrid, s)}) >= 2

\* C30 witness: a contradiction reported for a start grid no solution
\* agrees with.
C30_WitnessContradiction ==
    /\ phase = "returned"
    /\ hist.contradiction > 0
    /\ Solutions(puzzle) # {}

\* C30 witness: solved from the all-unknown grid.
C30_WitnessSolved ==
    /\ phase = "returned" /\ result.solved
    /\ StartGrid = create_empty(puzzle.width, puzzle.height)
    /\ puzzle.width = 3

====
